---- MODULE Spec2Model ----
(***************************************************************************)
(* Model of rustbus src/message.rs: the header-field validator             *)
(* (validate_header_fields), the signature derivation of Param values      *)
(* (make_signature) and the Message constructor (Message::new).            *)
(*                                                                         *)
(* Strings the code builds are sequences of one-character strings.         *)
(* A Result is a tuple: <<"Ok">> / <<"Ok", v>> or <<"Err", e, ...>>.       *)
(***************************************************************************)
EXTENDS Integers, Sequences, FiniteSets, TLC

\* ------------------------------------------------------------------ bounds
MaxFields == 3      \* longest header-field list handed to the validator
MaxVal    == 2      \* payloads carried by header fields are 1..MaxVal
MaxNodes  == 4      \* largest Param tree (number of Param nodes)
MaxElems  == 3      \* longest element list of an Array / Struct
MaxParams == 2      \* longest body handed to Message::new

\* ------------------------------------------------------------ enumerations
MessageType == {"Signal", "Error", "Call", "Reply"}

FieldKinds == {"Path", "Interface", "Member", "ErrorName", "ReplySerial",
               "Destination", "Sender", "Signature", "UnixFds"}

\* enum HeaderField: the kind and the value it carries (String or u32)
HeaderField == [kind : FieldKinds, val : 1..MaxVal]

Error == {"InvalidObjectPath", "InvalidSignature", "InvalidHeaderFields"}

Ok == <<"Ok">>
Err(e) == <<"Err", e>>

\* ------------------------------------------------- validate_header_fields
\* the nine have_* locals, all false before the loop
NoFlags == [k \in FieldKinds |-> FALSE]

\* MUTANT of HeaderFieldStep: the Sender arm forgets its duplicate check
HeaderFieldStepNoSenderCheck(h, st) ==
    IF h.kind # "Sender" /\ st.have[h.kind]
    THEN [st EXCEPT !.dup = TRUE]
    ELSE [st EXCEPT !.have[h.kind] = TRUE]

\* one iteration of `for h in header_fields`: every arm of the match tests
\* its own flag, returns Err when it is already set, and sets it otherwise.
\* The value carried by the field is bound to `_` and never read.
HeaderFieldStep(h, st) ==
    IF st.have[h.kind]
    THEN [st EXCEPT !.dup = TRUE]
    ELSE [st EXCEPT !.have[h.kind] = TRUE]

\* the loop, from element i on; it stops at the first early return
RECURSIVE ScanHeaderFields(_, _, _)
ScanHeaderFields(header_fields, i, st) ==
    IF st.dup \/ i > Len(header_fields)
    THEN st
    ELSE ScanHeaderFields(header_fields, i + 1,
                          HeaderFieldStep(header_fields[i], st))

\* MUTANT of RequiredPresent: the Signal arm forgets have_interface
RequiredPresentSignalLikeCall(msg_type, have) ==
    CASE msg_type = "Call"   -> have["Path"] /\ have["Member"]
      [] msg_type = "Signal" -> have["Path"] /\ have["Member"]
      [] msg_type = "Reply"  -> have["ReplySerial"]
      [] msg_type = "Error"  -> have["ErrorName"] /\ have["ReplySerial"]

\* `let valid = match msg_type { ... }`
RequiredPresent(msg_type, have) ==
    CASE msg_type = "Call"   -> have["Path"] /\ have["Member"]
      [] msg_type = "Signal" -> have["Path"] /\ have["Member"] /\ have["Interface"]
      [] msg_type = "Reply"  -> have["ReplySerial"]
      [] msg_type = "Error"  -> have["ErrorName"] /\ have["ReplySerial"]

\* MUTANT of validate_header_fields: returns Ok as soon as the required
\* fields have been seen, without looking at the rest of the list
RECURSIVE EarlyExitScan(_, _, _, _)
EarlyExitScan(msg_type, header_fields, i, st) ==
    IF st.dup THEN Err("InvalidHeaderFields")
    ELSE IF RequiredPresent(msg_type, st.have) THEN Ok
    ELSE IF i > Len(header_fields) THEN Err("InvalidHeaderFields")
    ELSE EarlyExitScan(msg_type, header_fields, i + 1,
                       HeaderFieldStep(header_fields[i], st))

validate_header_fields_early_exit(msg_type, header_fields) ==
    EarlyExitScan(msg_type, header_fields, 1, [dup |-> FALSE, have |-> NoFlags])

\* MUTANT of validate_header_fields: the duplicate arms return another
\* variant of Error than the final check
validate_header_fields_other_variant(msg_type, header_fields) ==
    LET st == ScanHeaderFields(header_fields, 1, [dup |-> FALSE, have |-> NoFlags])
    IN  IF st.dup THEN Err("InvalidSignature")
        ELSE IF RequiredPresent(msg_type, st.have) THEN Ok
        ELSE Err("InvalidHeaderFields")

validate_header_fields(msg_type, header_fields) ==
    LET st == ScanHeaderFields(header_fields, 1, [dup |-> FALSE, have |-> NoFlags])
    IN  IF st.dup THEN Err("InvalidHeaderFields")
        ELSE IF RequiredPresent(msg_type, st.have) THEN Ok
        ELSE Err("InvalidHeaderFields")

\* ------------------------------------------------------------ Param values
\* enum Base (the scalar carried is never read by make_signature)
BaseKinds == {"Int32", "Uint32", "String", "Signature", "ObjectPath", "Boolean"}

\* enum Param / enum Container, as tagged records
BaseP(k) == [tag |-> "Base", kind |-> k]
ArrayP(es) == [tag |-> "Array", elements |-> es]
StructP(es) == [tag |-> "Struct", elements |-> es]
DictEntryP(k, v) == [tag |-> "DictEntry", key |-> k, val |-> v]
VariantP(t, v) == [tag |-> "Variant", sig |-> t, value |-> v]

\* struct Variant: the declared types a Variant is built with, written as
\* signature text
VariantSigs == {<<"i">>, <<"s">>}

\* number of Param nodes of a value
RECURSIVE SizeSeq(_, _)
RECURSIVE Size(_)
SizeSeq(es, i) == IF i > Len(es) THEN 0 ELSE Size(es[i]) + SizeSeq(es, i + 1)
Size(p) ==
    CASE p.tag = "Base"      -> 1
      [] p.tag = "Array"     -> 1 + SizeSeq(p.elements, 1)
      [] p.tag = "Struct"    -> 1 + SizeSeq(p.elements, 1)
      [] p.tag = "DictEntry" -> 1 + Size(p.val)
      [] p.tag = "Variant"   -> 1 + Size(p.value)

\* --------------------------------------------------------- make_signature
\* The state of a derivation: the buffer written so far, and whether the
\* call panicked (an index out of bounds) instead of returning.
Running(buf) == [panic |-> FALSE, buf |-> buf]
Panicked(buf) == [panic |-> TRUE, buf |-> buf]

RECURSIVE ParamMakeSignature(_, _)
RECURSIVE StructElements(_, _, _)

\* Base::make_signature: one letter per kind
BaseMakeSignature(b, buf) ==
    CASE b = "Boolean"    -> Append(buf, "c")
      [] b = "Int32"      -> Append(buf, "i")
      [] b = "Uint32"     -> Append(buf, "u")
      [] b = "ObjectPath" -> Append(buf, "o")
      [] b = "String"     -> Append(buf, "s")
      [] b = "Signature"  -> Append(buf, "g")

\* Container::Array arm: push 'a', then elements[0].make_signature(buf);
\* elements[0] of an empty Vec panics
ArrayMakeSignature(elements, buf) ==
    IF Len(elements) = 0
    THEN Panicked(Append(buf, "a"))
    ELSE ParamMakeSignature(elements[1], Append(buf, "a"))

\* Container::DictEntry arm: '{', key, value, and '{' again
DictEntryMakeSignature(key, val, buf) ==
    LET r == ParamMakeSignature(val, BaseMakeSignature(key, Append(buf, "{")))
    IN  IF r.panic THEN r ELSE Running(Append(r.buf, "{"))

\* `for el in elements { el.make_signature(buf) }`, from element i on
StructElements(elements, i, r) ==
    IF r.panic \/ i > Len(elements)
    THEN r
    ELSE StructElements(elements, i + 1, ParamMakeSignature(elements[i], r.buf))

\* Container::Struct arm
StructMakeSignature(elements, buf) ==
    LET r == StructElements(elements, 1, Running(Append(buf, "(")))
    IN  IF r.panic THEN r ELSE Running(Append(r.buf, ")"))

\* MUTANT of VariantMakeSignature: the inner value's signature follows 'v'
VariantMakeSignatureWithInner(v, buf) ==
    ParamMakeSignature(v.value, Append(buf, "v"))

\* Container::Variant arm: 'v' and nothing else
VariantMakeSignature(v, buf) == Running(Append(buf, "v"))

\* Container::make_signature
ContainerMakeSignature(c, buf) ==
    CASE c.tag = "Array"     -> ArrayMakeSignature(c.elements, buf)
      [] c.tag = "DictEntry" -> DictEntryMakeSignature(c.key, c.val, buf)
      [] c.tag = "Struct"    -> StructMakeSignature(c.elements, buf)
      [] c.tag = "Variant"   -> VariantMakeSignature(c, buf)

\* Param::make_signature
ParamMakeSignature(p, buf) ==
    IF p.tag = "Base"
    THEN Running(BaseMakeSignature(p.kind, buf))
    ELSE ContainerMakeSignature(p, buf)

\* validate_array: a stub that accepts every array
validate_array(array) == Ok

\* ----------------------------------------------------------- Message::new
\* Option<String>
None == <<>>
Some(x) == <<x>>

\* the constructor stores its six arguments and returns the Message
MessageNew(typ, interface, member, object, destination, params) ==
    [typ |-> typ, interface |-> interface, member |-> member,
     params |-> params, object |-> object, destination |-> destination]

\* ------------------------------------------------------------------ state
VARIABLES
    msg_type,        \* validate_header_fields: first argument
    header_fields,   \* validate_header_fields: the Vec<HeaderField>
    result,          \* what the last call of validate_header_fields returned
    calls,           \* number of calls made on this input
    value,           \* the Param whose signature is derived
    outcome,         \* how make_signature on value ended
    msg              \* the Message a call of Message::new returned

hvars == <<msg_type, header_fields, result, calls>>
pvars == <<value, outcome>>
vars == <<msg_type, header_fields, result, calls, value, outcome, msg>>

NoResult == <<"None">>
NoParam == [tag |-> "None"]
NoMessage == [typ |-> "None"]

\* the part of the state an operation does not belong to
HeaderIdle ==
    /\ msg_type = "Call"
    /\ header_fields = <<>>
    /\ result = NoResult
    /\ calls = 0
ParamIdle == value = NoParam /\ outcome = NoResult
MessageIdle == msg = NoMessage

\* ---------------------------------------------- header validator: actions
InitHeader ==
    /\ msg_type \in MessageType
    /\ header_fields = <<>>
    /\ result = NoResult
    /\ calls = 0
    /\ ParamIdle
    /\ MessageIdle

\* the caller assembles the list, one field at a time.  Payloads are told
\* apart only among fields of one kind: the first field of a kind carries
\* payload 1, a repeated kind any payload.
PushHeaderField(h) ==
    /\ calls = 0
    /\ Len(header_fields) < MaxFields
    /\ h.val = 1 \/ \E i \in 1..Len(header_fields) : header_fields[i].kind = h.kind
    /\ header_fields' = Append(header_fields, h)
    /\ UNCHANGED <<msg_type, result, calls, pvars, msg>>

\* a call validate_header_fields(msg_type, &header_fields); the list is
\* borrowed immutably
ValidateHeaderFields ==
    /\ calls < 2
    /\ result' = validate_header_fields(msg_type, header_fields)
    /\ calls' = calls + 1
    /\ UNCHANGED <<msg_type, header_fields, pvars, msg>>

NextHeader ==
    \/ \E h \in HeaderField : PushHeaderField(h)
    \/ ValidateHeaderFields

SpecHeader == InitHeader /\ [][NextHeader]_vars

\* ------------------------------------------------- Param values: actions
InitParam ==
    /\ value \in {BaseP(k) : k \in BaseKinds} \cup {ArrayP(<<>>), StructP(<<>>)}
    /\ outcome = NoResult
    /\ HeaderIdle
    /\ MessageIdle

CanGrow == outcome = NoResult /\ Size(value) < MaxNodes

\* Container::Array(vec![value])
WrapArray ==
    /\ CanGrow
    /\ value' = ArrayP(<<value>>)
    /\ UNCHANGED <<outcome, hvars, msg>>

\* Container::Struct(vec![value])
WrapStruct ==
    /\ CanGrow
    /\ value' = StructP(<<value>>)
    /\ UNCHANGED <<outcome, hvars, msg>>

\* Container::DictEntry(key, Box::new(value))
WrapDictEntry(key) ==
    /\ CanGrow
    /\ value' = DictEntryP(key, value)
    /\ UNCHANGED <<outcome, hvars, msg>>

\* Container::Variant(Box::new(Variant { sig, value }))
WrapVariant(sig) ==
    /\ CanGrow
    /\ value' = VariantP(sig, value)
    /\ UNCHANGED <<outcome, hvars, msg>>

\* one more scalar element pushed on the Vec of an Array or a Struct
PushElement(k) ==
    /\ CanGrow
    /\ value.tag \in {"Array", "Struct"}
    /\ Len(value.elements) < MaxElems
    /\ value' = [value EXCEPT !.elements = Append(@, BaseP(k))]
    /\ UNCHANGED <<outcome, hvars, msg>>

\* `let mut buf = String::new(); value.make_signature(&mut buf)`
DeriveSignature ==
    /\ outcome = NoResult
    /\ LET r == ParamMakeSignature(value, <<>>)
       IN  outcome' = IF r.panic THEN <<"Panic">> ELSE <<"Ok", r.buf>>
    /\ UNCHANGED <<value, hvars, msg>>

NextParam ==
    \/ WrapArray
    \/ WrapStruct
    \/ \E key \in BaseKinds : WrapDictEntry(key)
    \/ \E sig \in VariantSigs : WrapVariant(sig)
    \/ \E k \in BaseKinds : PushElement(k)
    \/ DeriveSignature

SpecParam == InitParam /\ [][NextParam]_vars

\* ---------------------------------------------------- Message: actions
Names == {"a", "b"}
OptionString == {None} \cup {Some(n) : n \in Names}

\* the bodies handed to the constructor: up to MaxParams scalars
Bodies == UNION {[1..n -> {BaseP(k) : k \in BaseKinds}] : n \in 0..MaxParams}

InitMessage ==
    /\ msg = NoMessage
    /\ HeaderIdle
    /\ ParamIdle

\* a call Message::new(typ, interface, member, object, destination, params)
NewMessage(typ, interface, member, object, destination, params) ==
    /\ msg = NoMessage
    /\ msg' = MessageNew(typ, interface, member, object, destination, params)
    /\ UNCHANGED <<hvars, pvars>>

NextMessage ==
    \E typ \in MessageType, interface \in OptionString, member \in OptionString,
       object \in OptionString, destination \in OptionString, params \in Bodies :
        NewMessage(typ, interface, member, object, destination, params)

SpecMessage == InitMessage /\ [][NextMessage]_vars

\* ------------------------------------------- header validator: properties
\* the field kinds a message kind requires (the table of the specification)
RequiredFields(t) ==
    CASE t = "Call"   -> {"Path", "Member"}
      [] t = "Signal" -> {"Path", "Member", "Interface"}
      [] t = "Reply"  -> {"ReplySerial"}
      [] t = "Error"  -> {"ErrorName", "ReplySerial"}

KindsIn(fs) == {fs[i].kind : i \in 1..Len(fs)}
Occurrences(fs, k) == Cardinality({i \in 1..Len(fs) : fs[i].kind = k})
DuplicatedKinds(fs) == {k \in FieldKinds : Occurrences(fs, k) >= 2}
MissingFields(t, fs) == RequiredFields(t) \ KindsIn(fs)

\* the permutations of 1..n, for every list length of the model
PermutationsOf ==
    [n \in 0..(MaxFields + 1) |->
        {p \in [1..n -> 1..n] : \A i, j \in 1..n : p[i] = p[j] => i = j}]
Permuted(fs, p) == [i \in 1..Len(fs) |-> fs[p[i]]]
Revalued(fs, vals) == [i \in 1..Len(fs) |-> [kind |-> fs[i].kind, val |-> vals[i]]]

\* C1: on a list without a duplicated kind the validator succeeds exactly
\* when every field required for the message kind is present, and adding a
\* field that is not required (and not yet present) does not change the
\* outcome.
C1_RequiredTable ==
    (calls >= 1 /\ DuplicatedKinds(header_fields) = {}) =>
        /\ (result = Ok) <=> (RequiredFields(msg_type) \subseteq KindsIn(header_fields))
        /\ \A h \in HeaderField :
              (h.kind \notin RequiredFields(msg_type) /\ h.kind \notin KindsIn(header_fields))
                  => validate_header_fields(msg_type, Append(header_fields, h)) = result

C1_Witness ==
    /\ calls >= 1
    /\ msg_type = "Call"
    /\ KindsIn(header_fields) = {"Path", "Member", "Interface"}
    /\ Len(header_fields) = 3
    /\ result = Ok

\* C2: a list in which some field kind occurs twice or more is rejected,
\* for every message kind, wherever the occurrences are, whatever values
\* they carry and even when every required field is present.
C2_DuplicateRejected ==
    (calls >= 1 /\ DuplicatedKinds(header_fields) # {}) => result[1] = "Err"

C2_Witness ==
    /\ calls >= 1
    /\ MissingFields(msg_type, header_fields) = {}
    /\ \E i, j \in 1..Len(header_fields) :
          /\ i + 1 < j
          /\ header_fields[i].kind = header_fields[j].kind
          /\ header_fields[i].val # header_fields[j].val
    /\ result[1] = "Err"

C10_OrderAndValueBlind ==
    [][ calls' = calls + 1 =>
          /\ header_fields' = header_fields
          /\ (calls >= 1 => result' = result)
          /\ calls = 0 => \A p \in PermutationsOf[Len(header_fields)] :
                validate_header_fields(msg_type, Permuted(header_fields, p)) = result'
          /\ calls = 0 => \A vals \in [1..Len(header_fields) -> 1..MaxVal] :
                validate_header_fields(msg_type, Revalued(header_fields, vals)) = result'
      ]_vars

C10_Witness ==
    /\ calls = 2
    /\ Len(header_fields) = 3
    /\ DuplicatedKinds(header_fields) # {}
    /\ MissingFields(msg_type, header_fields) = {}
    /\ header_fields[1].kind # header_fields[3].kind

\* ------------------------------------------------ Param values: properties
Derived == outcome # NoResult

\* the text make_signature writes for p into an empty buffer
SignatureOf(p) == ParamMakeSignature(p, <<>>)

\* the positions of an Array value's elements whose derived signature is
\* not that of the first element
Offending(es) == {i \in 2..Len(es) : SignatureOf(es[i]) # SignatureOf(es[1])}
Least(S) == CHOOSE i \in S : \A j \in S : i <= j

\* every '(' or '{' of text is closed by a later ')' or '}', in order
RECURSIVE Closes(_, _, _)
Closes(text, i, open) ==
    IF i > Len(text) THEN open = <<>>
    ELSE IF text[i] = "(" THEN Closes(text, i + 1, <<")">> \o open)
    ELSE IF text[i] = "{" THEN Closes(text, i + 1, <<"}">> \o open)
    ELSE IF text[i] \in {")", "}"}
         THEN open # <<>> /\ open[1] = text[i] /\ Closes(text, i + 1, Tail(open))
    ELSE Closes(text, i + 1, open)
Balanced(text) == Closes(text, 1, <<>>)

\* p holds a DictEntry that is not the direct element of an Array (the
\* content of a Variant is typed on its own and not looked into)
RECURSIVE BareDictEntry(_, _)
BareDictEntry(p, inArray) ==
    CASE p.tag = "Base"      -> FALSE
      [] p.tag = "Variant"   -> FALSE
      [] p.tag = "DictEntry" -> ~inArray \/ BareDictEntry(p.val, FALSE)
      [] p.tag = "Array"     -> \E i \in 1..Len(p.elements) : BareDictEntry(p.elements[i], TRUE)
      [] p.tag = "Struct"    -> \E i \in 1..Len(p.elements) : BareDictEntry(p.elements[i], FALSE)

\* C5: deriving the signature of a non-empty Array whose elements do not
\* all derive the same type fails with HeterogeneousArray(index of the first
\* element differing from element 0, counted from 0); an Array whose
\* elements all derive the same type gives 'a' followed by that type.
C5_HeterogeneousArrayRejected ==
    (/\ Derived
     /\ value.tag = "Array"
     /\ Len(value.elements) >= 1
     /\ \A i \in 1..Len(value.elements) : ~SignatureOf(value.elements[i]).panic) =>
        IF Offending(value.elements) = {}
        THEN outcome[1] = "Ok" /\ outcome[2] = <<"a">> \o SignatureOf(value.elements[1]).buf
        ELSE /\ outcome[1] = "Err"
             /\ Len(outcome) = 3
             /\ outcome[2] = "HeterogeneousArray"
             /\ outcome[3] = Least(Offending(value.elements)) - 1

\* C6: a DictEntry with key K and value V derives '{', K's signature, V's
\* signature and '}' (so an Array of DictEntry(String, Int32) derives
\* "a{si}"), and every derived signature has its brackets matched.
C6_DictEntryClosed ==
    (Derived /\ outcome[1] = "Ok") =>
        /\ Balanced(outcome[2])
        /\ value.tag = "DictEntry" =>
              outcome[2] = BaseMakeSignature(value.key, <<"{">>)
                              \o SignatureOf(value.val).buf \o <<"}">>
        /\ value = ArrayP(<<DictEntryP("String", BaseP("Int32"))>>) =>
              outcome[2] = <<"a", "{", "s", "i", "}">>

\* C7: signature derivation returns for every Param value, empty Arrays at
\* any depth included; it never panics.
C7_DerivationTotal ==
    Derived => outcome[1] # "Panic"

\* C8: a value holding a DictEntry anywhere but as the direct element of an
\* Array (a Struct field, the top level) is rejected, no signature is
\* produced for it.
C8_BareDictEntryRejected ==
    (Derived /\ outcome[1] # "Panic" /\ BareDictEntry(value, FALSE)) =>
        outcome[1] = "Err"

\* C9: a Variant derives exactly "v", whatever its declared type and inner
\* value; inside an Array or a Struct it contributes the same text as any
\* other Variant.
AnyVariant == VariantP(<<"i">>, BaseP("Int32"))
C9_VariantMarker ==
    Derived =>
        /\ value.tag = "Variant" => outcome = <<"Ok", <<"v">>>>
        /\ (/\ value.tag \in {"Array", "Struct"}
            /\ Len(value.elements) >= 1
            /\ value.elements[1].tag = "Variant") =>
              LET r == SignatureOf([value EXCEPT !.elements[1] = AnyVariant])
              IN  ~r.panic /\ outcome = <<"Ok", r.buf>>

C9_Witness ==
    /\ Derived
    /\ value.tag = "Struct"
    /\ Len(value.elements) = 2
    /\ value.elements[1].tag = "Variant"
    /\ value.elements[1].sig = <<"s">>
    /\ value.elements[1].value.tag = "Array"

\* ------------------------------------------------------ Message: property
\* C4: Message::new yields no Message that lacks a field its kind requires:
\* a Call has an object path and a member, a Signal also an interface.
C4_ConstructorRejectsInvalid ==
    msg # NoMessage =>
        /\ msg.typ \in {"Call", "Signal"} => (msg.object # None /\ msg.member # None)
        /\ msg.typ = "Signal" => msg.interface # None
====
